---- MODULE Spec2Model ----
(***************************************************************************)
(* The session authentication orchestrator of the wacli HTTP API:          *)
(* the /auth/* handlers (internal/api), the detached background            *)
(* connection task of GET /auth/qr, and the App/WA session they share.     *)
(*                                                                         *)
(* The handlers are translated from the Go source.  The package            *)
(* internal/app (App.OpenWA, App.EnsureAuthed, App.Connect, WA().IsAuthed, *)
(* WA().Logout, WA().PairPhone) is not part of the sources at hand; the    *)
(* operators that stand for it follow sections 4.1, 4.2 and 4.6 of the     *)
(* specification and say so in their comments.                             *)
(*                                                                         *)
(* A Go select that finds cases able to proceed takes any one of them.     *)
(* The select of GET /auth/qr that finds none parks the handler; the first *)
(* channel operation that becomes possible then claims the parked handler  *)
(* and decides the case (runtime selectgo: the first waker wins).          *)
(* Timers (context deadlines, the ticker) are events of the environment,   *)
(* and so is the cancellation of a request's context when its client goes  *)
(* away.  A deadline of seconds does not fire before the handler that      *)
(* created it a few statements earlier has evaluated its select; a         *)
(* cancellation can come at any time.                                      *)
(***************************************************************************)
EXTENDS Naturals, Sequences, FiniteSets, TLC

\* Number of HTTP requests of one run; request ids are handed out in order.
MaxReq == 2
\* Number of GET /auth/qr requests among them (each starts a goroutine).
MaxQR == 1

\* Number of requests of a run that is followed from the router on, through
\* the middleware of the route's group.
MaxGate == 1

\* make(chan string, 1), make(chan error, 1)
ChanCap == 1
\* "expires_in": 60
QRExpiresIn == 60
\* "expires_in": 300
PairExpiresIn == 300

Req == 1..MaxReq

\* Codes the platform may hand to the code-delivery callback of request r:
\* a code of the handshake of r (every handshake has its own), or the empty
\* string, the content qrcode.Encode refuses ("no data to encode").
CodeNames == <<"qrA", "qrB", "qrC", "qrD">>
Codes(r) == {"", CodeNames[r]}

\* phone_number of a POST /auth/pair body: missing or empty, not a phone
\* number, a phone number
Phones == {"", "abc", "15551234567"}

\* Bodies of POST /send/text: not the JSON the handler binds, a recipient
\* that is no JID, a well-formed message
SendBodies == {"invalid", "badjid", "ok"}

\* A request of which the model does not look at what it carries
NoInput == << >>

VARIABLES
    \* ---- Session (App / WA client) ----
    opened,      \* a.wa != nil: the platform client object exists
    authed,      \* credentials of a paired device are present
    connected,   \* the transport is connected
    storeOK,     \* the local credential storage can be opened
    phonePending,\* a numeric pairing code was issued and not yet used
    \* ---- requests ----
    nextId,      \* id of the next request to arrive
    kind,        \* kind[r]: which endpoint request r called
    pc,          \* pc[r]: position of request r's handler
    ctx,         \* ctx[r]: the handler's context.WithTimeout(...)
    resp,        \* resp[r]: the response written by c.JSON
    ticker,      \* ticker[r]: time.NewTicker of waitForPairingHandler
    reqBody,     \* reqBody[r]: the request's input (body, headers)
    localAuthed, \* localAuthed[r]: local variable authed of authStatusHandler
    \* ---- GET /auth/qr: result slots and background task ----
    qrCodeChan,  \* qrCodeChan[r]: buffered channel of capacity 1
    errChan,     \* errChan[r]: buffered channel of capacity 1
    bgSt,        \* bgSt[r]: position of the goroutine started by request r
    bgRes,       \* bgRes[r]: what a.Connect returned to that goroutine
    \* ---- history (read by properties only) ----
    nConnect,    \* nConnect[r]: calls of a.Connect made on behalf of r
    nTransport,  \* nTransport[r]: calls of client.ConnectContext made by r
    nLogout,     \* nLogout[r]: calls of WA().Logout made by r
    nPairPhone,  \* nPairPhone[r]: calls of WA().PairPhone made by r
    authedAtArrival, \* authedAtArrival[r]: the Session could be opened and was
                 \* authenticated when r arrived
    everConnected, \* the transport was connected at some point since the
                 \* process started
    everAuthed,  \* the Session was authenticated at some point since the
                 \* process started
    failedInTime, \* failedInTime[r]: Connect of r's background task returned
                 \* an error while r's handler was parked in its select, its
                 \* context live and no case had claimed it (kept until the
                 \* handler answers)
    seen,        \* seen[r]: the states (authenticated, connected) the Session
                 \* went through since r's status handler read IsAuthed()
    \* ---- the process (main) ----
    quit,        \* main received SIGINT/SIGTERM and called srv.Shutdown
    closed,      \* App.Close() was called: the SessionHandle is closed
    \* ---- what the requests carry ----
    given,       \* given[r]: the credentials, query, headers and body that
                 \* request r arrives with, where the model looks at them
    \* ---- the parked select of GET /auth/qr ----
    woken        \* woken[r]: the case that claimed r's parked handler

sessVars == <<opened, authed, connected, storeOK, phonePending>>
locVars  == <<reqBody, localAuthed>>
reqVars  == <<nextId, kind, pc, ctx, resp, ticker, locVars>>
qrVars   == <<qrCodeChan, errChan, bgSt, bgRes, woken>>
callVars == <<nConnect, nTransport, nLogout, nPairPhone>>
sessHist == <<everConnected, everAuthed>>
histVars == <<callVars, authedAtArrival, failedInTime, sessHist>>
procVars == <<quit, closed>>
vars     == <<sessVars, reqVars, qrVars, histVars, seen, procVars, given>>

----------------------------------------------------------------------------
\* Responses (gin.H bodies with their status)

Resp(status, msg) ==
    [status |-> status, msg |-> msg, cause |-> "",
     authenticated |-> FALSE, connected |-> FALSE,
     qr_code |-> "", qr_code_png |-> << >>, expires_in |-> 0,
     pairing_code |-> "", phone_number |-> "",
     logged_out |-> FALSE, sent |-> FALSE, to |-> ""]

NoResp == Resp(0, "")

\* qrcode.Encode(code, qrcode.Medium, 256): fails on empty content
EncodeOK(code) == code # ""
\* the PNG of a code; distinct codes give distinct images
EncodePNG(code) == <<"png", code>>
\* "data:image/png;base64," + base64.StdEncoding.EncodeToString(png)
DataURI(png) == <<"data:image/png;base64">> \o png

RespConflict ==
    [Resp(409, "already authenticated") EXCEPT !.authenticated = TRUE]

\* Variant: the 200 response without the rendered image
RespQRCodeNoImage(code) ==
    [Resp(200, "Scan this QR code with WhatsApp") EXCEPT
        !.qr_code = code,
        !.expires_in = QRExpiresIn]

RespQRCode(code) ==
    [Resp(200, "Scan this QR code with WhatsApp") EXCEPT
        !.qr_code = code,
        !.qr_code_png = DataURI(EncodePNG(code)),
        !.expires_in = QRExpiresIn]

RespQRImageFailed == Resp(500, "failed to generate QR code image")

\* Variant: the error response without the explanation of the error
RespQRConnFailedNoCause(err) == Resp(500, "connection failed")

RespQRConnFailed(err) == [Resp(500, "connection failed") EXCEPT !.cause = err]

RespQRTimeout == Resp(408, "timeout waiting for QR code")

----------------------------------------------------------------------------
\* Session operations (package internal/app; modelled from the specification)

\* EnsureOpened: nil when the client exists or can be created
OpenWAOk == opened \/ storeOK
\* the client object after a call of OpenWA
OpenWAPost == opened \/ storeOK

\* IsAuthenticated(): a read, no side effect
IsAuthed == opened /\ authed
\* IsConnected(): a read, no side effect
IsConnected == opened /\ connected

\* a.EnsureAuthed(): nil when the client can be opened and is authenticated
\* (4.6 "EnsureAuthenticated guard")
EnsureAuthedOk == OpenWAOk /\ authed

\* What a.Connect(ctx, false, nil) can return (4.2 "connect assuming prior
\* authentication", 4.6 "establishes a live connection if not already
\* connected")
ConnectNoQRResults ==
    IF ~OpenWAOk THEN {"InitializationError"}
    ELSE IF ~authed THEN {"NotAuthenticated"}
    ELSE IF connected THEN {"nil"}
    ELSE {"nil", "ConnectionError"}

\* The call a.Connect(ctx, false, nil) of request r returning e
ConnectNoQR(r, e) ==
    /\ e \in ConnectNoQRResults
    /\ nConnect' = [nConnect EXCEPT ![r] = @ + 1]
    /\ opened' = OpenWAPost
    /\ connected' = IF e = "nil" THEN TRUE ELSE connected

\* What the platform's Logout(ctx) can return
PlatformLogoutResults == {"nil", "LogoutError"}

\* What the platform's PairPhone(ctx, number) can return (4.4)
PairPhoneResults(phone) ==
    IF phone = "15551234567"
    THEN {"nil", "PairingRequestError"}
    ELSE {"InvalidPhoneNumber"}

----------------------------------------------------------------------------
\* Contexts, channels, and the frame of a handler step

\* ctx.Err() == nil
CtxLive(r) == ctx[r] = "live"
\* cancel(), and the deadline of context.WithTimeout: ctx.Done() is closed
Cancel(c) == "done"

\* A channel that neither the handler nor the goroutine refers to any more:
\* what it held is garbage
Unreachable == << >>

\* Variant: a send that always takes the default branch
TrySendDropping(ch, v) == ch

\* select { case ch <- v: default: }   -- the non-blocking send
TrySend(ch, v) == IF Len(ch) < ChanCap THEN Append(ch, v) ELSE ch

\* History: Connect of r's background task returns an error
NoteFailure(r) ==
    IF pc[r] = "blocked" /\ woken[r] = "none" /\ CtxLive(r)
    THEN [failedInTime EXCEPT ![r] = TRUE]
    ELSE failedInTime

\* A channel operation of case c became possible: it claims r's handler when
\* the handler is parked in its select and no case has claimed it yet
Wake(r, c) ==
    IF pc[r] = "blocked" /\ woken[r] = "none"
    THEN [woken EXCEPT ![r] = c]
    ELSE woken

\* History: the Session's state after a step is added to what every status
\* handler that stands between its two reads has seen
Observe ==
    [r \in Req |->
        IF pc'[r] = "statusConnected"
        THEN seen[r] \cup {<<IsAuthed', IsConnected'>>}
        ELSE {}]

\* Request r arrives at endpoint k (gin runs the handler in its own goroutine)
Arrive(r, k) ==
    /\ r = nextId
    /\ nextId' = nextId + 1
    /\ kind' = [kind EXCEPT ![r] = k]
    /\ authedAtArrival' = [authedAtArrival EXCEPT ![r] = OpenWAOk /\ authed]

\* The handler of r returns after c.JSON(...); its local variables are gone
Reply(r, response) ==
    /\ resp' = [resp EXCEPT ![r] = response]
    /\ pc' = [pc EXCEPT ![r] = "done"]
    /\ reqBody' = [reqBody EXCEPT ![r] = ""]
    /\ localAuthed' = [localAuthed EXCEPT ![r] = FALSE]

\* The handler of r goes on to position p
Goto(r, p) ==
    /\ pc' = [pc EXCEPT ![r] = p]
    /\ UNCHANGED <<resp, locVars>>

\* The handler of r goes on to position p, with b bound from the request
GotoWith(r, p, b) ==
    /\ pc' = [pc EXCEPT ![r] = p]
    /\ reqBody' = [reqBody EXCEPT ![r] = b]
    /\ UNCHANGED <<resp, localAuthed>>

----------------------------------------------------------------------------
\* GET /auth/qr -- getQRCodeHandler

\* Variant of the entry guard that never holds
QRGuardSkipped == FALSE

\* err := a.OpenWA(); err == nil && a.WA().IsAuthed()
QRAlreadyAuthed == OpenWAOk /\ authed

\* Variant: the goroutine hands the handler's ctx to a.Connect
ConnectCtxOfRequest(r) == "request"

\* The context handed to a.Connect by the goroutine: context.Background()
ConnectCtx(r) == "background"

\* Whether the context handed to a.Connect is done
ConnectCtxDone(r) == ConnectCtx(r) = "request" /\ ~CtxLive(r)

\* Errors a.Connect can return from a handshake in progress (4.2)
ConnectFailures(r) ==
    {"ConnectionError"} \cup (IF ConnectCtxDone(r) THEN {"DeadlineExceeded"} ELSE {})

\* The handler up to and including the go statement
QRStart(r) ==
    /\ Arrive(r, "qr")
    /\ opened' = OpenWAPost
    /\ IF QRAlreadyAuthed
       THEN /\ Reply(r, RespConflict)
            /\ UNCHANGED <<ctx, bgSt>>
       ELSE /\ ctx' = [ctx EXCEPT ![r] = "live"]
            /\ bgSt' = [bgSt EXCEPT ![r] = "spawned"]
            /\ Goto(r, "select")
    /\ UNCHANGED <<sessHist, authed, connected, storeOK, phonePending, ticker,
                   qrCodeChan, errChan, bgRes, woken, callVars, failedInTime>>
    /\ seen' = Observe
    /\ UNCHANGED <<procVars, given>>

\* The goroutine calls a.Connect(context.Background(), true, onCode).
\* Connect (4.2): ensures the client is opened; returns at once when already
\* authenticated; otherwise connects and starts the pairing handshake.
BgConnect(r) ==
    /\ bgSt[r] = "spawned"
    /\ nConnect' = [nConnect EXCEPT ![r] = @ + 1]
    /\ opened' = OpenWAPost
    /\ IF ~OpenWAOk
       THEN /\ bgSt' = [bgSt EXCEPT ![r] = "returned"]
            /\ bgRes' = [bgRes EXCEPT ![r] = "InitializationError"]
            /\ failedInTime' = NoteFailure(r)
            /\ UNCHANGED connected
       ELSE IF authed
       THEN /\ bgSt' = [bgSt EXCEPT ![r] = "returned"]
            /\ bgRes' = [bgRes EXCEPT ![r] = "nil"]
            /\ UNCHANGED <<connected, failedInTime>>
       ELSE \/ /\ ~closed
               /\ connected' = TRUE
               /\ bgSt' = [bgSt EXCEPT ![r] = "handshake"]
               /\ UNCHANGED <<bgRes, failedInTime>>
            \/ /\ bgSt' = [bgSt EXCEPT ![r] = "returned"]
               /\ bgRes' = [bgRes EXCEPT ![r] = "ConnectionError"]
               /\ failedInTime' = NoteFailure(r)
               /\ UNCHANGED connected
    /\ everConnected' = (everConnected \/ connected')
    /\ UNCHANGED <<everAuthed, authed, storeOK, phonePending, reqVars, qrCodeChan, errChan,
                   woken, nTransport, nLogout, nPairPhone, authedAtArrival>>
    /\ seen' = Observe
    /\ UNCHANGED <<procVars, given>>

\* Variant: a callback that delivers the code of the first request's task
OnCodeOfFirstTask(r, code) == TrySend(qrCodeChan[r], CodeNames[1])

\* func(code string) { select { case qrCodeChan <- code: default: } }
OnCode(r, code) == TrySend(qrCodeChan[r], code)

\* The platform emits the scannable code; Connect invokes onCode once (4.2)
BgEmitCode(r, code) ==
    /\ bgSt[r] = "handshake"
    /\ ~closed
    /\ qrCodeChan' = [qrCodeChan EXCEPT ![r] = OnCode(r, code)]
    /\ woken' = IF Len(qrCodeChan[r]) < ChanCap THEN Wake(r, "code") ELSE woken
    /\ bgSt' = [bgSt EXCEPT ![r] = "coded"]
    /\ UNCHANGED <<sessVars, reqVars, errChan, bgRes, histVars>>
    /\ seen' = Observe
    /\ UNCHANGED <<procVars, given>>

\* The user scans the code: the handshake ends authenticated, Connect returns
\* nil.  The events of the platform arrive over the transport, which a closed
\* SessionHandle does not have.
BgScan(r) ==
    /\ bgSt[r] = "coded"
    /\ ~closed
    /\ ~authed
    /\ authed' = TRUE
    /\ everAuthed' = TRUE
    /\ bgSt' = [bgSt EXCEPT ![r] = "returned"]
    /\ bgRes' = [bgRes EXCEPT ![r] = "nil"]
    /\ UNCHANGED <<opened, connected, storeOK, phonePending, reqVars,
                   qrCodeChan, errChan, woken, callVars, authedAtArrival, failedInTime, everConnected>>
    /\ seen' = Observe
    /\ UNCHANGED <<procVars, given>>

\* The handshake ends in failure: Connect returns an error
BgFail(r) ==
    /\ bgSt[r] \in {"handshake", "coded"}
    /\ \E e \in ConnectFailures(r) :
          bgRes' = [bgRes EXCEPT ![r] = e]
    /\ bgSt' = [bgSt EXCEPT ![r] = "returned"]
    /\ failedInTime' = NoteFailure(r)
    /\ UNCHANGED <<sessHist, authedAtArrival, sessVars, reqVars, qrCodeChan, errChan, woken, callVars>>
    /\ seen' = Observe
    /\ UNCHANGED <<procVars, given>>

\* Variant: the goroutine reports its error whatever the state of ctx
BgReportsAlways(r) == bgRes[r] # "nil"

\* Variant: the goroutine reports its error as long as the handler has not
\* answered, without looking at ctx
BgReportsUntilReply(r) == bgRes[r] # "nil" /\ pc[r] # "done"

\* err != nil && ctx.Err() == nil
BgShouldReport(r) == bgRes[r] # "nil" /\ CtxLive(r)

\* Variant: a goroutine that calls Connect again when it returned an error
BgReportRetrying(r) ==
    /\ bgSt[r] = "returned"
    /\ bgSt' = [bgSt EXCEPT ![r] = IF bgRes[r] = "nil" THEN "exited" ELSE "spawned"]
    /\ bgRes' = [bgRes EXCEPT ![r] = "none"]
    /\ UNCHANGED <<sessVars, reqVars, histVars, qrCodeChan, errChan, woken>>
    /\ seen' = Observe
    /\ UNCHANGED <<procVars, given>>

\* if err != nil && ctx.Err() == nil { select { case errChan <- err: default: } }
\* and the end of the goroutine
BgReport(r) ==
    /\ bgSt[r] = "returned"
    /\ bgSt' = [bgSt EXCEPT ![r] = "exited"]
    /\ bgRes' = [bgRes EXCEPT ![r] = "none"]
    /\ errChan' = [errChan EXCEPT ![r] =
                      IF pc[r] = "done" THEN Unreachable
                      ELSE IF BgShouldReport(r) THEN TrySend(@, bgRes[r])
                      ELSE @]
    /\ qrCodeChan' = [qrCodeChan EXCEPT ![r] =
                         IF pc[r] = "done" THEN Unreachable ELSE @]
    /\ woken' = IF BgShouldReport(r) /\ Len(errChan[r]) < ChanCap
                THEN Wake(r, "err")
                ELSE woken
    /\ UNCHANGED <<sessVars, reqVars, histVars>>
    /\ seen' = Observe
    /\ UNCHANGED <<procVars, given>>

\* The deadline of the handler's context fires, or the client goes away and
\* the request context is canceled: either way ctx.Done() is closed, and the
\* handler does not tell the two apart.  Before the handler has evaluated its
\* select it is a cancellation.
CtxDone(r) ==
    /\ pc[r] \in {"select", "blocked", "poll"}
    /\ CtxLive(r)
    /\ ctx' = [ctx EXCEPT ![r] = Cancel(@)]
    /\ woken' = Wake(r, "ctx")
    /\ UNCHANGED <<sessVars, nextId, kind, pc, resp, ticker, locVars,
                   qrCodeChan, errChan, bgSt, bgRes, histVars>>
    /\ seen' = Observe
    /\ UNCHANGED <<procVars, given>>

\* Variant: a select without the case <-ctx.Done()
QRReadyNoDeadline(r) ==
    (IF Len(qrCodeChan[r]) > 0 THEN {"code"} ELSE {})
    \cup (IF Len(errChan[r]) > 0 THEN {"err"} ELSE {})

\* The cases of the handler's select that can proceed
QRReady(r) ==
    (IF Len(qrCodeChan[r]) > 0 THEN {"code"} ELSE {})
    \cup (IF Len(errChan[r]) > 0 THEN {"err"} ELSE {})
    \cup (IF ~CtxLive(r) THEN {"ctx"} ELSE {})

\* Variant: the handler answers with the code whenever the code slot holds one
QRResponsePreferCode(r, c) ==
    IF Len(qrCodeChan[r]) > 0
    THEN RespQRCode(Head(qrCodeChan[r]))
    ELSE RespQRTimeout

\* The response of the select's case c
QRResponse(r, c) ==
    IF c = "code"
    THEN IF EncodeOK(Head(qrCodeChan[r]))
         THEN RespQRCode(Head(qrCodeChan[r]))
         ELSE RespQRImageFailed
    ELSE IF c = "err"
    THEN RespQRConnFailed(Head(errChan[r]))
    ELSE RespQRTimeout

\* The select finds no case able to proceed: the handler parks on the three
\* channels
QRBlock(r) ==
    /\ pc[r] = "select"
    /\ QRReady(r) = {}
    /\ Goto(r, "blocked")
    /\ UNCHANGED <<sessVars, nextId, kind, ctx, ticker, qrVars, histVars>>
    /\ seen' = Observe
    /\ UNCHANGED <<procVars, given>>

\* The cases the handler can take: any ready one when it arrives at the
\* select, the one that claimed it when it was parked
QRTakes(r) ==
    IF pc[r] = "blocked" THEN {woken[r]} \ {"none"} ELSE QRReady(r)

\* select { case code := <-qrCodeChan: ... case err := <-errChan: ...
\*          case <-ctx.Done(): ... }, and defer cancel()
QRSelect(r) ==
    /\ pc[r] \in {"select", "blocked"}
    /\ \E c \in QRTakes(r) :
          /\ Reply(r, QRResponse(r, c))
          /\ qrCodeChan' = [qrCodeChan EXCEPT ![r] =
                               IF bgSt[r] = "exited" THEN Unreachable
                               ELSE IF c = "code" THEN Tail(@) ELSE @]
          /\ errChan' = [errChan EXCEPT ![r] =
                            IF bgSt[r] = "exited" THEN Unreachable
                            ELSE IF c = "err" THEN Tail(@) ELSE @]
    /\ ctx' = [ctx EXCEPT ![r] = Cancel(@)]
    /\ woken' = [woken EXCEPT ![r] = "none"]
    /\ failedInTime' = [failedInTime EXCEPT ![r] = FALSE]
    /\ UNCHANGED <<sessHist, sessVars, nextId, kind, ticker, bgSt, bgRes, callVars,
                   authedAtArrival>>
    /\ seen' = Observe
    /\ UNCHANGED <<procVars, given>>

----------------------------------------------------------------------------
\* GET /auth/wait -- waitForPairingHandler

RespWaitInitFailed ==
    [Resp(500, "failed to check auth status") EXCEPT !.cause = "InitializationError"]
RespWaitAlready ==
    [Resp(200, "already authenticated") EXCEPT !.authenticated = TRUE]
RespWaitPaired ==
    [Resp(200, "pairing successful") EXCEPT !.authenticated = TRUE]
RespWaitTimeout == Resp(408, "timeout waiting for pairing")

\* Variant: the handler without its entry check
WaitEntryCheckSkipped == FALSE

\* if a.WA().IsAuthed(), after a successful a.OpenWA()
WaitAlreadyAuthed == authed

\* The handler up to the for loop: OpenWA, the first IsAuthed check,
\* context.WithTimeout and time.NewTicker
WaitStart(r) ==
    /\ Arrive(r, "wait")
    /\ opened' = OpenWAPost
    /\ IF ~OpenWAOk
       THEN Reply(r, RespWaitInitFailed) /\ UNCHANGED <<ctx, ticker>>
       ELSE IF WaitAlreadyAuthed
       THEN Reply(r, RespWaitAlready) /\ UNCHANGED <<ctx, ticker>>
       ELSE /\ ctx' = [ctx EXCEPT ![r] = "live"]
            /\ ticker' = [ticker EXCEPT ![r] = "running"]
            /\ Goto(r, "poll")
    /\ UNCHANGED <<sessHist, authed, connected, storeOK, phonePending, qrVars, callVars, failedInTime>>
    /\ seen' = Observe
    /\ UNCHANGED <<procVars, given>>

\* Variant: a loop whose select has no case <-ctx.Done()
WaitReadyNoDeadline(r) ==
    IF ticker[r] = "running" THEN {"tick"} ELSE {}

\* The cases of the loop's select that can proceed: the ticker of an
\* interval puts a tick on ticker.C sooner or later, ctx.Done() is closed
\* once the context is done
WaitReady(r) ==
    (IF ~CtxLive(r) THEN {"ctx"} ELSE {})
    \cup (IF ticker[r] = "running" THEN {"tick"} ELSE {})

\* Whether case c of the loop's select ends the handler
WaitReturns(c) == c = "ctx" \/ IsAuthed

\* Variant: every return of the loop reports success
WaitResponseAlwaysPaired(c) == RespWaitPaired

\* The response of case c when it ends the handler
WaitResponse(c) == IF c = "ctx" THEN RespWaitTimeout ELSE RespWaitPaired

\* for { select { case <-ctx.Done(): ... case <-ticker.C: if a.WA().IsAuthed() ... } }
\* with defer cancel() and defer ticker.Stop()
WaitSelect(r) ==
    /\ pc[r] = "poll"
    /\ \E c \in WaitReady(r) :
          IF WaitReturns(c)
          THEN /\ Reply(r, WaitResponse(c))
               /\ ctx' = [ctx EXCEPT ![r] = Cancel(@)]
               /\ ticker' = [ticker EXCEPT ![r] = "off"]
          ELSE UNCHANGED <<pc, resp, ctx, ticker, locVars>>
    /\ UNCHANGED <<sessVars, nextId, kind, qrVars, histVars>>
    /\ seen' = Observe
    /\ UNCHANGED <<procVars, given>>

----------------------------------------------------------------------------
\* GET /auth/status -- authStatusHandler

\* Variant: a status response that always reports an authenticated Session
RespStatusAlwaysAuthed(a, c) ==
    [Resp(200, "status") EXCEPT !.authenticated = TRUE, !.connected = c]

\* The response built from the two local variables: the JSON body, or for a
\* request with the HX-Request header the HTML fragment showing the same two
RespStatus(a, c) ==
    [Resp(200, "status") EXCEPT !.authenticated = a, !.connected = c]

\* if app.WA() != nil { authed = app.WA().IsAuthed() ...
StatusStart(r) ==
    /\ Arrive(r, "status")
    /\ IF opened
       THEN /\ pc' = [pc EXCEPT ![r] = "statusConnected"]
            /\ localAuthed' = [localAuthed EXCEPT ![r] = IsAuthed]
            /\ UNCHANGED <<resp, reqBody>>
       ELSE Reply(r, RespStatus(FALSE, FALSE))
    /\ UNCHANGED <<sessHist, sessVars, ctx, ticker, qrVars, callVars, failedInTime>>
    /\ seen' = Observe
    /\ UNCHANGED <<procVars, given>>

\* Variant: a status check that brings the transport up before it answers
StatusFinishReconnecting(r) ==
    /\ pc[r] = "statusConnected"
    /\ connected' = TRUE
    /\ everConnected' = TRUE
    /\ Reply(r, RespStatus(localAuthed[r], TRUE))
    /\ UNCHANGED <<opened, authed, storeOK, phonePending, nextId, kind, ctx,
                   ticker, qrVars, callVars, authedAtArrival, failedInTime,
                   everAuthed>>
    /\ seen' = Observe
    /\ UNCHANGED <<procVars, given>>

\* ... connected = app.WA().IsConnected() } and the response
StatusFinish(r) ==
    /\ pc[r] = "statusConnected"
    /\ Reply(r, RespStatus(localAuthed[r], IsConnected))
    /\ UNCHANGED <<sessVars, nextId, kind, ctx, ticker, qrVars, histVars>>
    /\ seen' = Observe
    /\ UNCHANGED <<procVars, given>>

----------------------------------------------------------------------------
\* POST /auth/logout -- logoutHandler

RespLogoutNotAuthed == Resp(401, "not authenticated")
RespLogoutConnFailed(err) == [Resp(500, "failed to connect") EXCEPT !.cause = err]
RespLogoutFailed(err) == [Resp(500, "logout failed") EXCEPT !.cause = err]
RespLoggedOut == [Resp(200, "successfully logged out") EXCEPT !.logged_out = TRUE]

\* Variant: the handler without its guard
LogoutGuardSkipped == FALSE

\* if err := a.EnsureAuthed(); err != nil
LogoutGuardFails == ~EnsureAuthedOk

LogoutStart(r) ==
    /\ Arrive(r, "logout")
    /\ opened' = OpenWAPost
    /\ IF LogoutGuardFails
       THEN Reply(r, RespLogoutNotAuthed)
       ELSE Goto(r, "logoutConnect")
    /\ UNCHANGED <<sessHist, authed, connected, storeOK, phonePending, ctx, ticker,
                   qrVars, callVars, failedInTime>>
    /\ seen' = Observe
    /\ UNCHANGED <<procVars, given>>

\* Variant: a handler that calls Connect a second time when the first call
\* failed
LogoutConnectRetrying(r) ==
    /\ pc[r] = "logoutConnect"
    /\ \E e \in ConnectNoQRResults :
          /\ ConnectNoQR(r, e)
          /\ IF e = "nil"
             THEN Goto(r, "logoutCall")
             ELSE IF nConnect[r] = 0
             THEN Goto(r, "logoutConnect")
             ELSE Reply(r, RespLogoutConnFailed(e))
    /\ everConnected' = (everConnected \/ connected')
    /\ UNCHANGED <<everAuthed, authedAtArrival, authed, storeOK, phonePending, nextId, kind, ctx, ticker,
                   qrVars, nTransport, nLogout, nPairPhone, failedInTime>>
    /\ seen' = Observe
    /\ UNCHANGED <<procVars, given>>

\* Variant: a handler that goes on to the platform Logout although Connect
\* failed
LogoutConnectIgnoringError(r) ==
    /\ pc[r] = "logoutConnect"
    /\ \E e \in ConnectNoQRResults :
          /\ ConnectNoQR(r, e)
          /\ Goto(r, "logoutCall")
    /\ everConnected' = (everConnected \/ connected')
    /\ UNCHANGED <<everAuthed, authedAtArrival, authed, storeOK, phonePending, nextId, kind, ctx, ticker,
                   qrVars, nTransport, nLogout, nPairPhone, failedInTime>>
    /\ seen' = Observe
    /\ UNCHANGED <<procVars, given>>

\* if err := a.Connect(ctx, false, nil); err != nil
LogoutConnect(r) ==
    /\ pc[r] = "logoutConnect"
    /\ \E e \in ConnectNoQRResults :
          /\ ConnectNoQR(r, e)
          /\ IF e # "nil"
             THEN Reply(r, RespLogoutConnFailed(e))
             ELSE Goto(r, "logoutCall")
    /\ everConnected' = (everConnected \/ connected')
    /\ UNCHANGED <<everAuthed, authedAtArrival, authed, storeOK, phonePending, nextId, kind, ctx, ticker,
                   qrVars, nTransport, nLogout, nPairPhone, failedInTime>>
    /\ seen' = Observe
    /\ UNCHANGED <<procVars, given>>

\* Variant: the handler reports success whatever Logout returned
LogoutResponseAlwaysOK(e) == RespLoggedOut

\* The response after a.WA().Logout(ctx) returned e
LogoutResponse(e) == IF e # "nil" THEN RespLogoutFailed(e) ELSE RespLoggedOut

\* if err := a.WA().Logout(ctx); err != nil ... and the final response.
\* On success the Session becomes unauthenticated (4.6).
LogoutCall(r) ==
    /\ pc[r] = "logoutCall"
    /\ nLogout' = [nLogout EXCEPT ![r] = @ + 1]
    /\ \E e \in PlatformLogoutResults :
          /\ Reply(r, LogoutResponse(e))
          /\ IF e = "nil"
             THEN authed' = FALSE /\ connected' \in {connected, FALSE}
             ELSE UNCHANGED <<authed, connected>>
    /\ UNCHANGED <<sessHist, authedAtArrival, opened, storeOK, phonePending, nextId, kind, ctx, ticker,
                   qrVars, nConnect, nTransport, nPairPhone, failedInTime>>
    /\ seen' = Observe
    /\ UNCHANGED <<procVars, given>>

----------------------------------------------------------------------------
\* POST /send/text -- sendTextHandler, an authenticated-only operation.
\* The other handlers of this kind (send file, groups, contact refresh,
\* history backfill, webhooks) are written the same way: the input is bound
\* where there is one, then EnsureAuthed, then Connect(ctx, false, nil), then
\* the platform operation.

RespSendBadBody == Resp(400, "invalid body")
RespSendNotAuthed == Resp(401, "not authenticated")
RespSendConnFailed(err) == [Resp(500, "connection failed") EXCEPT !.cause = err]
RespSendBadRecipient == Resp(400, "invalid recipient")
RespSendFailed(err) == [Resp(500, "send failed") EXCEPT !.cause = err]
RespSent == [Resp(200, "sent") EXCEPT !.sent = TRUE]

\* Variant: the handler without its guard
SendGuardSkipped == FALSE

\* if err := app.EnsureAuthed(); err != nil
SendGuardFails == ~EnsureAuthedOk

\* c.ShouldBindJSON(&req), then the EnsureAuthed guard
SendStart(r, b) ==
    /\ Arrive(r, "send")
    /\ IF b = "invalid"
       THEN Reply(r, RespSendBadBody) /\ UNCHANGED opened
       ELSE /\ opened' = OpenWAPost
            /\ IF SendGuardFails
               THEN Reply(r, RespSendNotAuthed)
               ELSE GotoWith(r, "sendConnect", b)
    /\ UNCHANGED <<sessHist, authed, connected, storeOK, phonePending, ctx, ticker,
                   qrVars, callVars, failedInTime>>
    /\ seen' = Observe
    /\ UNCHANGED <<procVars, given>>

\* The response after Connect returned nil: wa.ParseUserOrJID(req.To), then
\* app.WA().SendText(ctx, toJID, req.Message) returning e
SendResponse(b, e) ==
    IF b = "badjid" THEN RespSendBadRecipient
    ELSE IF e # "nil" THEN RespSendFailed(e)
    ELSE RespSent

\* if err := app.Connect(ctx, false, nil); err != nil ... and the rest of the
\* handler, which does not touch the Session's state
SendConnect(r) ==
    /\ pc[r] = "sendConnect"
    /\ \E e \in ConnectNoQRResults :
          /\ ConnectNoQR(r, e)
          /\ IF e # "nil"
             THEN Reply(r, RespSendConnFailed(e))
             ELSE \E se \in {"nil", "SendError"} :
                     Reply(r, SendResponse(reqBody[r], se))
    /\ everConnected' = (everConnected \/ connected')
    /\ UNCHANGED <<everAuthed, authedAtArrival, authed, storeOK, phonePending, nextId, kind, ctx, ticker,
                   qrVars, nTransport, nLogout, nPairPhone, failedInTime>>
    /\ seen' = Observe
    /\ UNCHANGED <<procVars, given>>

----------------------------------------------------------------------------
\* POST /auth/pair -- pairWithCodeHandler

RespPairBadBody == Resp(400, "invalid request")
RespPairInitFailed ==
    [Resp(500, "failed to initialize WhatsApp client") EXCEPT
        !.cause = "InitializationError"]
RespPairConnFailed(err) ==
    [Resp(500, "failed to connect to WhatsApp") EXCEPT !.cause = err]
RespPairFailed(err) ==
    [Resp(500, "failed to request pairing code") EXCEPT !.cause = err]
RespPairCode(code, phone) ==
    [Resp(200, "Enter this code in WhatsApp") EXCEPT
        !.pairing_code = code, !.phone_number = phone, !.expires_in = PairExpiresIn]

\* binding:"required": ShouldBindJSON fails on a missing or empty phone_number
PairBindFails(phone) == phone = ""

\* Variant of the entry guard that never holds
PairGuardSkipped == FALSE

\* err := a.OpenWA(); err == nil && a.WA().IsAuthed()
PairAlreadyAuthed == OpenWAOk /\ authed

\* The handler up to the second a.OpenWA()
PairStart(r, phone) ==
    /\ Arrive(r, "pair")
    /\ IF PairBindFails(phone)
       THEN Reply(r, RespPairBadBody) /\ UNCHANGED opened
       ELSE /\ opened' = OpenWAPost
            /\ IF PairAlreadyAuthed
               THEN Reply(r, RespConflict)
               ELSE IF ~OpenWAOk
               THEN Reply(r, RespPairInitFailed)
               ELSE GotoWith(r, "pairConnect", phone)
    /\ UNCHANGED <<sessHist, authed, connected, storeOK, phonePending, ctx, ticker,
                   qrVars, callVars, failedInTime>>
    /\ seen' = Observe
    /\ UNCHANGED <<procVars, given>>

\* Variant: a handler that requests the pairing code without connecting first
PairTransportSkipped(r) ==
    /\ pc[r] = "pairConnect"
    /\ Goto(r, "pairPhone")
    /\ UNCHANGED <<sessVars, nextId, kind, ctx, ticker, qrVars, histVars>>
    /\ seen' = Observe
    /\ UNCHANGED <<procVars, given>>

\* Variant: a handler that goes on to PairPhone although the transport
\* connect failed
PairTransportIgnoringError(r) ==
    /\ pc[r] = "pairConnect"
    /\ IF ~connected
       THEN /\ nTransport' = [nTransport EXCEPT ![r] = @ + 1]
            /\ \E e \in {"nil", "ConnectionError"} :
                  connected' = (e = "nil") /\ Goto(r, "pairPhone")
       ELSE Goto(r, "pairPhone") /\ UNCHANGED <<connected, nTransport>>
    /\ everConnected' = (everConnected \/ connected')
    /\ UNCHANGED <<everAuthed, authedAtArrival, opened, authed, storeOK, phonePending, nextId, kind, ctx, ticker,
                   qrVars, nConnect, nLogout, nPairPhone, failedInTime>>
    /\ seen' = Observe
    /\ UNCHANGED <<procVars, given>>

\* if !client.IsConnected() { if err := client.ConnectContext(ctx); err != nil
PairTransport(r) ==
    /\ pc[r] = "pairConnect"
    /\ IF ~connected
       THEN /\ nTransport' = [nTransport EXCEPT ![r] = @ + 1]
            /\ \E e \in {"nil", "ConnectionError"} :
                  IF e # "nil"
                  THEN Reply(r, RespPairConnFailed(e)) /\ UNCHANGED connected
                  ELSE connected' = TRUE /\ Goto(r, "pairPhone")
       ELSE Goto(r, "pairPhone") /\ UNCHANGED <<connected, nTransport>>
    /\ everConnected' = (everConnected \/ connected')
    /\ UNCHANGED <<everAuthed, authedAtArrival, opened, authed, storeOK, phonePending, nextId, kind, ctx, ticker,
                   qrVars, nConnect, nLogout, nPairPhone, failedInTime>>
    /\ seen' = Observe
    /\ UNCHANGED <<procVars, given>>

\* code, err := a.WA().PairPhone(ctx, req.PhoneNumber) and the final response
PairPhone(r) ==
    /\ pc[r] = "pairPhone"
    /\ nPairPhone' = [nPairPhone EXCEPT ![r] = @ + 1]
    /\ \E e \in PairPhoneResults(reqBody[r]) :
          IF e # "nil"
          THEN Reply(r, RespPairFailed(e)) /\ UNCHANGED phonePending
          ELSE /\ Reply(r, RespPairCode("ABCD-1234", reqBody[r]))
               /\ phonePending' = TRUE
    /\ UNCHANGED <<sessHist, authedAtArrival, opened, authed, connected, storeOK, nextId, kind, ctx, ticker,
                   qrVars, nConnect, nTransport, nLogout, failedInTime>>
    /\ seen' = Observe
    /\ UNCHANGED <<procVars, given>>

\* The user enters the numeric code on the phone: pairing completes
PhonePaired ==
    /\ phonePending
    /\ ~authed
    /\ authed' = TRUE
    /\ everAuthed' = TRUE
    /\ phonePending' = FALSE
    /\ UNCHANGED <<opened, connected, storeOK, reqVars, qrVars, callVars, authedAtArrival, failedInTime, everConnected>>
    /\ seen' = Observe
    /\ UNCHANGED <<procVars, given>>

----------------------------------------------------------------------------

Init ==
    /\ opened = FALSE
    /\ authed \in BOOLEAN
    /\ connected = FALSE
    /\ storeOK \in BOOLEAN
    /\ phonePending = FALSE
    /\ nextId = 1
    /\ kind = [r \in Req |-> "none"]
    /\ pc = [r \in Req |-> "idle"]
    /\ ctx = [r \in Req |-> "none"]
    /\ resp = [r \in Req |-> NoResp]
    /\ ticker = [r \in Req |-> "off"]
    /\ reqBody = [r \in Req |-> ""]
    /\ localAuthed = [r \in Req |-> FALSE]
    /\ qrCodeChan = [r \in Req |-> << >>]
    /\ errChan = [r \in Req |-> << >>]
    /\ bgSt = [r \in Req |-> "none"]
    /\ bgRes = [r \in Req |-> "none"]
    /\ nConnect = [r \in Req |-> 0]
    /\ nTransport = [r \in Req |-> 0]
    /\ nLogout = [r \in Req |-> 0]
    /\ nPairPhone = [r \in Req |-> 0]
    /\ authedAtArrival = [r \in Req |-> FALSE]
    /\ failedInTime = [r \in Req |-> FALSE]
    /\ woken = [r \in Req |-> "none"]
    /\ everConnected = FALSE
    /\ everAuthed = authed
    /\ seen = [r \in Req |-> {}]
    /\ quit = FALSE
    /\ closed = FALSE
    /\ given = [r \in Req |-> NoInput]

Next ==
    \/ \E r \in Req :
        \/ Cardinality({q \in Req : kind[q] = "qr"}) < MaxQR /\ QRStart(r)
        \/ BgConnect(r)
        \/ \E code \in Codes(r) : BgEmitCode(r, code)
        \/ BgScan(r)
        \/ BgFail(r)
        \/ BgReport(r)
        \/ CtxDone(r)
        \/ QRBlock(r)
        \/ QRSelect(r)
        \/ WaitStart(r)
        \/ WaitSelect(r)
        \/ StatusStart(r)
        \/ StatusFinish(r)
        \/ LogoutStart(r)
        \/ LogoutConnect(r)
        \/ LogoutCall(r)
        \/ \E b \in SendBodies : SendStart(r, b)
        \/ SendConnect(r)
        \/ \E phone \in Phones : PairStart(r, phone)
        \/ PairTransport(r)
        \/ PairPhone(r)
    \/ PhonePaired

Spec == Init /\ [][Next]_vars

\* Connect returns DeadlineExceeded: the deadline of the context it was
\* handed has fired (4.2)
BgDeadline(r) == BgFail(r) /\ bgRes'[r] = "DeadlineExceeded"

\* What the Go scheduler and the timers guarantee: a goroutine that can take
\* its next step takes it, a deadline that was set fires, a call that does
\* network I/O under a deadline returns.  Nothing is assumed of the platform
\* and the user: a code need not be emitted or scanned, the handshake need
\* not fail, a request need not arrive.
Fairness ==
    \A r \in Req :
        /\ WF_vars(BgConnect(r))
        /\ WF_vars(BgDeadline(r))
        /\ WF_vars(BgReport(r))
        /\ WF_vars(CtxDone(r))
        /\ WF_vars(QRBlock(r))
        /\ WF_vars(QRSelect(r))
        /\ WF_vars(WaitSelect(r))
        /\ WF_vars(StatusFinish(r))
        /\ WF_vars(LogoutConnect(r))
        /\ WF_vars(LogoutCall(r))
        /\ WF_vars(SendConnect(r))
        /\ WF_vars(PairTransport(r))
        /\ WF_vars(PairPhone(r))

FairSpec == Spec /\ Fairness

----------------------------------------------------------------------------
\* Process shutdown -- main and Server.Shutdown; the life of the background
\* connection tasks up to it

\* Variant: a Shutdown that returns without closing the App
ShutdownWithoutClose ==
    /\ ~quit
    /\ quit' = TRUE
    /\ UNCHANGED <<closed, sessVars, reqVars, qrVars, histVars, seen, given>>

\* <-quit; srv.Shutdown(ctx): if s.App != nil { s.App.Close() }.
\* Close closes the SessionHandle and with it the transport (section 5).
Shutdown ==
    /\ ~quit
    /\ quit' = TRUE
    /\ closed' = TRUE
    /\ connected' = FALSE
    /\ UNCHANGED <<opened, authed, storeOK, phonePending, reqVars, qrVars, histVars,
                   given>>
    /\ seen' = Observe

\* Connect of r's background task finds the SessionHandle closed under it:
\* it fails fast rather than hang (section 5)
BgClosed(r) == closed /\ BgFail(r)

\* GET /auth/qr requests, their background tasks, and the shutdown of the
\* process
DownNext ==
    \/ \E r \in Req :
        \/ Cardinality({q \in Req : kind[q] = "qr"}) < MaxQR /\ QRStart(r)
        \/ BgConnect(r)
        \/ \E code \in Codes(r) : BgEmitCode(r, code)
        \/ BgScan(r)
        \/ BgFail(r)
        \/ BgReport(r)
        \/ CtxDone(r)
        \/ QRBlock(r)
        \/ QRSelect(r)
    \/ Shutdown

\* The scheduling of Fairness, and a Connect whose SessionHandle was closed
\* returns
DownFairness ==
    \A r \in Req :
        /\ WF_vars(BgConnect(r))
        /\ WF_vars(BgClosed(r))
        /\ WF_vars(BgReport(r))
        /\ WF_vars(CtxDone(r))
        /\ WF_vars(QRBlock(r))
        /\ WF_vars(QRSelect(r))

DownSpec == Init /\ [][DownNext]_vars /\ DownFairness

----------------------------------------------------------------------------
\* The route table and the API-key middleware -- SetupRoutes, APIKeyAuth.
\* The actions above are handlers: each is what gin runs once a request has
\* been routed to it and the middleware of its group has called c.Next().

\* cfg.APIKeys: the keys of WACLI_API_KEYS
ValidKeys == {"k1"}
\* What a request can carry where a key is looked for
KeyTokens == {"", "k1", "zz"}
\* The Authorization header: absent, or a scheme and what follows it
AuthHeaders ==
    {<<"", "">>, <<"Bearer ", "">>, <<"Bearer ", "k1">>, <<"Bearer ", "zz">>,
     <<"Basic ", "k1">>}

\* The credentials of a request: the header X-API-Key, the query parameter
\* api_key, the header Authorization
Creds == [header : KeyTokens, query : KeyTokens, auth : AuthHeaders]

\* v1 := router.Group("/api/v1"); v1.Use(APIKeyAuth(cfg.APIKeys)): the
\* routes of the group that have a handler here
V1Routes == {"qr", "wait", "status", "logout", "send", "pair"}
\* router.GET("/health", ...), router.StaticFile("/", ...),
\* router.Static("/static", ...): registered on the router itself
PublicRoutes == {"health", "static"}
Routes == V1Routes \cup PublicRoutes

\* Variant: a middleware that takes a valid key from whichever source has
\* one, and the first non-empty key otherwise
APIKeyOfAnyValid(cred) ==
    IF cred.header \in ValidKeys THEN cred.header
    ELSE IF cred.query \in ValidKeys THEN cred.query
    ELSE IF cred.auth[1] = "Bearer " /\ cred.auth[2] \in ValidKeys THEN cred.auth[2]
    ELSE IF cred.header # "" THEN cred.header
    ELSE IF cred.query # "" THEN cred.query
    ELSE IF cred.auth[1] = "Bearer " THEN cred.auth[2]
    ELSE ""

\* apiKey as the middleware determines it: the header first, then the query
\* parameter, then the Authorization header when it has the Bearer scheme
APIKeyOf(cred) ==
    IF cred.header # "" THEN cred.header
    ELSE IF cred.query # "" THEN cred.query
    ELSE IF cred.auth[1] = "Bearer " THEN cred.auth[2]
    ELSE ""

RespKeyRequired == Resp(401, "API key is required")
RespKeyInvalid == Resp(401, "Invalid API key")

\* Variant: a middleware that lets every request through
APIKeyAuthDisabled(cred) == FALSE

\* if apiKey == "" { ... c.Abort() }; if !keyMap[apiKey] { ... c.Abort() }
APIKeyAuthAborts(cred) ==
    APIKeyOf(cred) = "" \/ APIKeyOf(cred) \notin ValidKeys

\* The response of the middleware when it aborts
APIKeyAuthResponse(cred) ==
    IF APIKeyOf(cred) = "" THEN RespKeyRequired ELSE RespKeyInvalid

\* c.JSON(http.StatusUnauthorized, ...); c.Abort(); return -- the handler of
\* the route is not run
Abort(r, ep, cred) ==
    /\ Arrive(r, ep)
    /\ Reply(r, APIKeyAuthResponse(cred))
    /\ UNCHANGED <<sessVars, ctx, ticker, qrVars, callVars, failedInTime, sessHist>>
    /\ seen' = Observe
    /\ UNCHANGED <<procVars, given>>

\* healthHandler, and the file server of "/" and "/static" which answers with
\* the file or with 404
Public(r, ep) ==
    /\ Arrive(r, ep)
    /\ \E st \in (IF ep = "health" THEN {200} ELSE {200, 404}) :
          Reply(r, Resp(st, ep))
    /\ UNCHANGED <<sessVars, ctx, ticker, qrVars, callVars, failedInTime, sessHist>>
    /\ seen' = Observe
    /\ UNCHANGED <<procVars, given>>

\* The handler registered for route ep of the group
Handler(r, ep) ==
    CASE ep = "qr" -> Cardinality({q \in Req : kind[q] = "qr"}) < MaxQR /\ QRStart(r)
      [] ep = "wait" -> WaitStart(r)
      [] ep = "status" -> StatusStart(r)
      [] ep = "logout" -> LogoutStart(r)
      [] ep = "send" -> \E b \in SendBodies : SendStart(r, b)
      [] ep = "pair" -> \E phone \in Phones : PairStart(r, phone)

\* A request for route ep carrying cred arrives: gin runs the middleware of
\* the route's group, then the handler
Request(r, ep, cred) ==
    IF ep \in PublicRoutes THEN Public(r, ep)
    ELSE IF APIKeyAuthAborts(cred) THEN Abort(r, ep, cred)
    ELSE Handler(r, ep)

\* Requests with their credentials, and everything the handlers and the
\* background tasks go on to do
GateNext ==
    \/ \E r \in Req :
        \/ /\ nextId <= MaxGate
           /\ \E ep \in Routes, cred \in Creds : Request(r, ep, cred)
        \/ BgConnect(r)
        \/ \E code \in Codes(r) : BgEmitCode(r, code)
        \/ BgScan(r)
        \/ BgFail(r)
        \/ BgReport(r)
        \/ CtxDone(r)
        \/ QRBlock(r)
        \/ QRSelect(r)
        \/ WaitSelect(r)
        \/ StatusFinish(r)
        \/ LogoutConnect(r)
        \/ LogoutCall(r)
        \/ SendConnect(r)
        \/ PairTransport(r)
        \/ PairPhone(r)
    \/ PhonePaired

\* The process when the request that is followed arrives: it has served
\* requests before, which left the Session in any of the states it can be in
\* (the client object exists only if the storage could be opened, the
\* transport is connected only if the client object exists)
GateInit ==
    /\ opened \in BOOLEAN
    /\ authed \in BOOLEAN
    /\ connected \in {c \in BOOLEAN : c => opened}
    /\ storeOK \in {s \in BOOLEAN : opened => s}
    /\ phonePending = FALSE
    /\ nextId = 1
    /\ kind = [r \in Req |-> "none"]
    /\ pc = [r \in Req |-> "idle"]
    /\ ctx = [r \in Req |-> "none"]
    /\ resp = [r \in Req |-> NoResp]
    /\ ticker = [r \in Req |-> "off"]
    /\ reqBody = [r \in Req |-> ""]
    /\ localAuthed = [r \in Req |-> FALSE]
    /\ qrCodeChan = [r \in Req |-> << >>]
    /\ errChan = [r \in Req |-> << >>]
    /\ bgSt = [r \in Req |-> "none"]
    /\ bgRes = [r \in Req |-> "none"]
    /\ nConnect = [r \in Req |-> 0]
    /\ nTransport = [r \in Req |-> 0]
    /\ nLogout = [r \in Req |-> 0]
    /\ nPairPhone = [r \in Req |-> 0]
    /\ authedAtArrival = [r \in Req |-> FALSE]
    /\ failedInTime = [r \in Req |-> FALSE]
    /\ woken = [r \in Req |-> "none"]
    /\ everConnected = connected
    /\ everAuthed = authed
    /\ seen = [r \in Req |-> {}]
    /\ quit = FALSE
    /\ closed = FALSE
    /\ given = [r \in Req |-> NoInput]

GateSpec == GateInit /\ [][GateNext]_vars

\* The same under the scheduling of Fairness
GateFairSpec == GateSpec /\ Fairness

----------------------------------------------------------------------------
\* POST /webhook/grafana -- webhookGrafanaHandler, an authenticated-only
\* operation whose recipient comes from the request's query, headers or body

\* What a request can carry as recipient: in the query parameter "to", in the
\* header X-WhatsApp-To, and in the alert that the body binds to, in
\* commonAnnotations["whatsapp_to"], alerts[0].annotations["whatsapp_to"] (""
\* also when there is no alert) and tags["whatsapp_to"]; every source has a
\* value of its own, and the query can hold something that is no JID.
\* parseErr: c.ShouldBindJSON(&alert) returned an error (the fields decoded
\* up to a type error stay bound).
HookInputs ==
    [to : {"", "qTo", "bad"}, hdr : {"", "hTo"}, common : {"", "cTo"},
     alert0 : {"", "aTo"}, tags : {"", "tTo"}, parseErr : BOOLEAN]

RespHookNoRecipient == Resp(400, "recipient required")
RespHookNotAuthed == Resp(401, "not authenticated")
RespHookConnFailed(err) == [Resp(500, "connection failed") EXCEPT !.cause = err]
RespHookBadRecipient == Resp(400, "invalid recipient")
RespHookSendFailed(err) == [Resp(500, "send failed") EXCEPT !.cause = err]
RespHookSent(rcpt) == [Resp(200, "sent") EXCEPT !.sent = TRUE, !.to = rcpt]

\* Variant: a handler that looks at the header before the query parameter
HookRecipientHeaderFirst(in) ==
    IF in.hdr # "" THEN in.hdr
    ELSE IF in.to # "" THEN in.to
    ELSE IF in.common # "" THEN in.common
    ELSE IF in.alert0 # "" THEN in.alert0
    ELSE in.tags

\* recipient := c.Query("to"), and the four assignments under
\* if recipient == ""
HookRecipient(in) ==
    IF in.to # "" THEN in.to
    ELSE IF in.hdr # "" THEN in.hdr
    ELSE IF in.common # "" THEN in.common
    ELSE IF in.alert0 # "" THEN in.alert0
    ELSE in.tags

\* wa.ParseUserOrJID(recipient) returns no error
HookJIDOk(rcpt) == rcpt # "bad"

\* The handler up to Connect: the body is read and bound, the recipient is
\* resolved, then (the same in the fallback branch and in the other) the
\* EnsureAuthed guard
WebhookStart(r) ==
    /\ Arrive(r, "webhook")
    /\ IF HookRecipient(given[r]) = ""
       THEN Reply(r, RespHookNoRecipient) /\ UNCHANGED opened
       ELSE /\ opened' = OpenWAPost
            /\ IF ~EnsureAuthedOk
               THEN Reply(r, RespHookNotAuthed)
               ELSE GotoWith(r, "hookConnect", HookRecipient(given[r]))
    /\ UNCHANGED <<sessHist, authed, connected, storeOK, phonePending, ctx, ticker,
                   qrVars, callVars, failedInTime>>
    /\ seen' = Observe
    /\ UNCHANGED <<procVars, given>>

\* The response after Connect returned nil: wa.ParseUserOrJID(recipient),
\* then app.WA().SendText(ctx, toJID, message) returning e
HookResponse(rcpt, e) ==
    IF ~HookJIDOk(rcpt) THEN RespHookBadRecipient
    ELSE IF e # "nil" THEN RespHookSendFailed(e)
    ELSE RespHookSent(rcpt)

\* if err := app.Connect(ctx, false, nil); err != nil ... and the rest of the
\* handler
WebhookConnect(r) ==
    /\ pc[r] = "hookConnect"
    /\ \E e \in ConnectNoQRResults :
          /\ ConnectNoQR(r, e)
          /\ IF e # "nil"
             THEN Reply(r, RespHookConnFailed(e))
             ELSE \E se \in {"nil", "SendError"} :
                     Reply(r, HookResponse(reqBody[r], se))
    /\ everConnected' = (everConnected \/ connected')
    /\ UNCHANGED <<everAuthed, authedAtArrival, authed, storeOK, phonePending, nextId, kind, ctx, ticker,
                   qrVars, nTransport, nLogout, nPairPhone, failedInTime>>
    /\ seen' = Observe
    /\ UNCHANGED <<procVars, given>>

\* The process when the webhook requests that are followed arrive, each with
\* what it carries; the Session as earlier requests can have left it
HookInit ==
    /\ opened \in BOOLEAN
    /\ authed \in BOOLEAN
    /\ connected \in {c \in BOOLEAN : c => opened}
    /\ storeOK \in {s \in BOOLEAN : opened => s}
    /\ phonePending = FALSE
    /\ nextId = 1
    /\ kind = [r \in Req |-> "none"]
    /\ pc = [r \in Req |-> "idle"]
    /\ ctx = [r \in Req |-> "none"]
    /\ resp = [r \in Req |-> NoResp]
    /\ ticker = [r \in Req |-> "off"]
    /\ reqBody = [r \in Req |-> ""]
    /\ localAuthed = [r \in Req |-> FALSE]
    /\ qrCodeChan = [r \in Req |-> << >>]
    /\ errChan = [r \in Req |-> << >>]
    /\ bgSt = [r \in Req |-> "none"]
    /\ bgRes = [r \in Req |-> "none"]
    /\ nConnect = [r \in Req |-> 0]
    /\ nTransport = [r \in Req |-> 0]
    /\ nLogout = [r \in Req |-> 0]
    /\ nPairPhone = [r \in Req |-> 0]
    /\ authedAtArrival = [r \in Req |-> FALSE]
    /\ failedInTime = [r \in Req |-> FALSE]
    /\ woken = [r \in Req |-> "none"]
    /\ everConnected = connected
    /\ everAuthed = authed
    /\ seen = [r \in Req |-> {}]
    /\ quit = FALSE
    /\ closed = FALSE
    /\ given \in [Req -> HookInputs \cup {NoInput}]
    /\ \A r \in Req : given[r] \in HookInputs <=> r <= MaxGate

HookNext ==
    \E r \in Req :
        \/ /\ r = nextId
           /\ nextId <= MaxGate
           /\ WebhookStart(r)
        \/ WebhookConnect(r)

HookSpec == HookInit /\ [][HookNext]_vars

----------------------------------------------------------------------------
\* The middleware by itself: the requests that are followed arrive with
\* credentials fixed beforehand, for any route, and the run stops where the
\* middleware has answered or has handed the request to its handler

KeyInit ==
    /\ opened = FALSE
    /\ authed \in BOOLEAN
    /\ connected = FALSE
    /\ storeOK \in BOOLEAN
    /\ phonePending = FALSE
    /\ nextId = 1
    /\ kind = [r \in Req |-> "none"]
    /\ pc = [r \in Req |-> "idle"]
    /\ ctx = [r \in Req |-> "none"]
    /\ resp = [r \in Req |-> NoResp]
    /\ ticker = [r \in Req |-> "off"]
    /\ reqBody = [r \in Req |-> ""]
    /\ localAuthed = [r \in Req |-> FALSE]
    /\ qrCodeChan = [r \in Req |-> << >>]
    /\ errChan = [r \in Req |-> << >>]
    /\ bgSt = [r \in Req |-> "none"]
    /\ bgRes = [r \in Req |-> "none"]
    /\ nConnect = [r \in Req |-> 0]
    /\ nTransport = [r \in Req |-> 0]
    /\ nLogout = [r \in Req |-> 0]
    /\ nPairPhone = [r \in Req |-> 0]
    /\ authedAtArrival = [r \in Req |-> FALSE]
    /\ failedInTime = [r \in Req |-> FALSE]
    /\ woken = [r \in Req |-> "none"]
    /\ everConnected = FALSE
    /\ everAuthed = authed
    /\ seen = [r \in Req |-> {}]
    /\ quit = FALSE
    /\ closed = FALSE
    /\ given \in [Req -> Creds \cup {NoInput}]
    /\ \A r \in Req : given[r] \in Creds <=> r <= MaxGate

KeyNext ==
    \E r \in Req, ep \in Routes :
        /\ r = nextId
        /\ nextId <= MaxGate
        /\ Request(r, ep, given[r])

KeySpec == KeyInit /\ [][KeyNext]_vars

----------------------------------------------------------------------------
\* Simultaneous GET /auth/qr requests: every request in flight is a QR
\* request, and nothing bounds how many of them stand in their select at
\* once; every handler makes its own two channels and starts its own
\* goroutine, all of them on the one App

TaskNext ==
    \E r \in Req :
        \/ QRStart(r)
        \/ BgConnect(r)
        \/ \E code \in Codes(r) : BgEmitCode(r, code)
        \/ BgScan(r)
        \/ BgFail(r)
        \/ BgReport(r)
        \/ CtxDone(r)
        \/ QRBlock(r)
        \/ QRSelect(r)

TaskSpec == Init /\ [][TaskNext]_vars

----------------------------------------------------------------------------
\* Properties

\* The GET /auth/qr requests
QRReqs == {r \in Req : kind[r] = "qr"}

\* The GET /auth/wait requests
WaitReqs == {r \in Req : kind[r] = "wait"}

\* The POST /auth/logout requests
LogoutReqs == {r \in Req : kind[r] = "logout"}

\* The handler of QR request r is parked in its select and case c claimed it
Parked(r, c) == pc[r] = "blocked" /\ woken[r] = c

\* The handler of QR request r is at its select, which it has not evaluated
\* yet, and the cases in cs are the ones that can proceed
AtSelect(r, cs) ==
    /\ pc[r] = "select"
    /\ (Len(qrCodeChan[r]) > 0) = ("code" \in cs)
    /\ (Len(errChan[r]) > 0) = ("err" \in cs)
    /\ (ctx[r] = "done") = ("ctx" \in cs)

\* The handler of QR request r can answer, and only with response x
AnswersOnly(r, x) ==
    /\ ENABLED QRSelect(r)
    /\ ~ ENABLED (QRSelect(r) /\ resp'[r] # x)

\* The 200 response of GET /auth/qr for code, field by field
QRCodeBody(code) ==
    [Resp(200, "Scan this QR code with WhatsApp") EXCEPT
        !.qr_code = code,
        !.qr_code_png = <<"data:image/png;base64", "png", code>>,
        !.expires_in = 60]

\* The 500 response of GET /auth/qr for a code that cannot be rendered
QRImageFailedBody == Resp(500, "failed to generate QR code image")

\* The response to a code received from the code slot
CodeAnswer(code) == IF code # "" THEN QRCodeBody(code) ELSE QRImageFailedBody

\* The 500 response of GET /auth/qr for the error err of the background task
QRErrorBody(err) == [Resp(500, "connection failed") EXCEPT !.cause = err]

\* The 408 response of GET /auth/qr
QRTimeoutBody == Resp(408, "timeout waiting for QR code")

\* The errors Connect returns to the background task
ConnectErrors == {"InitializationError", "ConnectionError"}

\* C1: a GET /auth/qr request that arrives while the Session is authenticated
\* is answered with the conflict response (409 "already authenticated"), and
\* that request starts no background connection task: no goroutine is spawned
\* and Connect is never invoked on its behalf.
C1_QRConflictWhenAuthed ==
    \A r \in QRReqs :
        authedAtArrival[r]
            => /\ pc[r] = "done"
               /\ resp[r] = [Resp(409, "already authenticated") EXCEPT
                                !.authenticated = TRUE]
               /\ bgSt[r] = "none"
               /\ nConnect[r] = 0

\* C1 witness: a QR request that arrived on an authenticated Session has
\* been answered
C1_Witness ==
    \E r \in QRReqs :
        /\ authedAtArrival[r]
        /\ pc[r] = "done"
        /\ resp[r].status = 409

\* C2: when a GET /auth/qr request has ended with the timeout response (its
\* deadline fired or its request context was cancelled), the background
\* connection task it started is not cancelled: the task never ends with the
\* error of the request's context, and while it is still in the handshake
\* after the handler has returned, the next event of the handshake remains
\* possible; in particular the scan of an emitted code, which makes the
\* Session authenticated.
C2_BackgroundOutlivesTimeout ==
    \A r \in QRReqs :
        /\ bgRes[r] # "DeadlineExceeded"
        /\ (pc[r] = "done" /\ resp[r] = QRTimeoutBody /\ bgSt[r] = "spawned")
              => ENABLED BgConnect(r)
        /\ (pc[r] = "done" /\ resp[r] = QRTimeoutBody /\ bgSt[r] = "handshake")
              => ENABLED (\E code \in Codes(r) : BgEmitCode(r, code))
        /\ (pc[r] = "done" /\ resp[r] = QRTimeoutBody /\ bgSt[r] = "coded" /\ ~authed)
              => /\ ENABLED (BgScan(r) /\ authed')
                 /\ ~ ENABLED (BgScan(r) /\ ~authed')

\* C2 witness: the handler has answered 408 and the task is still waiting
\* for the scan of the code it emitted
C2_Witness ==
    \E r \in QRReqs :
        /\ pc[r] = "done"
        /\ resp[r] = QRTimeoutBody
        /\ bgSt[r] = "coded"
        /\ ~authed

\* A GET /auth/wait request that samples IsAuthed while the Session is
\* authenticated returns success: at its entry check, and on a tick of its
\* polling loop, which then cannot go on polling
WaitSampleSucceeds ==
    \A w \in WaitReqs :
        /\ authedAtArrival[w]
              => resp[w].status = 200 /\ resp[w].authenticated
        /\ (pc[w] = "poll" /\ IsAuthed)
              => /\ ENABLED (WaitSelect(w) /\ resp'[w].status = 200
                                /\ resp'[w].authenticated)
                 /\ ~ ENABLED (WaitSelect(w) /\ pc'[w] = "poll")
                 /\ ~ ENABLED (WaitSelect(w) /\ resp'[w].status = 200
                                  /\ ~resp'[w].authenticated)

\* C3: when the deadline of a GET /auth/qr request fires before the platform
\* has emitted the code, the deadline claims the waiting handler, which then
\* answers the timeout (408) whatever is emitted afterwards; a code emitted
\* after the answer changes nothing of it.  And a GET /auth/wait that samples
\* the Session after it became authenticated returns success.
C3_LateCodeMeansTimeout ==
    /\ \A r \in QRReqs :
          /\ (pc[r] = "blocked" /\ woken[r] = "none" /\ CtxLive(r))
                => /\ ENABLED (CtxDone(r) /\ woken'[r] = "ctx")
                   /\ ~ ENABLED (CtxDone(r) /\ woken'[r] # "ctx")
          /\ Parked(r, "ctx")
                => /\ AnswersOnly(r, QRTimeoutBody)
                   /\ ~ ENABLED (\E code \in Codes(r) :
                                    BgEmitCode(r, code) /\ woken'[r] # "ctx")
          /\ (pc[r] = "done" /\ resp[r] = QRTimeoutBody /\ bgSt[r] = "handshake")
                => ~ ENABLED (\E code \in Codes(r) :
                                 BgEmitCode(r, code) /\ resp'[r] # resp[r])
    /\ WaitSampleSucceeds

\* C3 witness: a QR request was answered 408, the code emitted for it lies
\* unread in its slot, and a later wait request has returned success
C3_Witness ==
    \E r \in QRReqs, w \in WaitReqs :
        /\ r < w
        /\ resp[r] = QRTimeoutBody
        /\ Len(qrCodeChan[r]) = 1
        /\ pc[w] = "done"
        /\ resp[w].status = 200
        /\ resp[w].authenticated

ThreeOutcomes(r, c) ==
    IF c = "code" THEN QRCodeBody(Head(qrCodeChan[r]))
    ELSE IF c = "err" THEN QRErrorBody(Head(errChan[r]))
    ELSE QRTimeoutBody

QRWaitedAnswers(r) ==
    {QRCodeBody(code) : code \in Codes(r) \ {""}}
    \cup {QRImageFailedBody}
    \cup {QRErrorBody(e) : e \in ConnectErrors}
    \cup {QRTimeoutBody}

\* The responses that correspond to an event that has resolved for r
QRResolvedAnswers(r) ==
    (IF Len(qrCodeChan[r]) > 0 THEN {CodeAnswer(Head(qrCodeChan[r]))} ELSE {})
    \cup (IF Len(errChan[r]) > 0 THEN {QRErrorBody(Head(errChan[r]))} ELSE {})
    \cup (IF ctx[r] = "done" THEN {QRTimeoutBody} ELSE {})

\* The response that belongs to case c of the select, by the four outcomes
FourOutcomes(r, c) ==
    IF c = "code" THEN CodeAnswer(Head(qrCodeChan[r]))
    ELSE IF c = "err" THEN QRErrorBody(Head(errChan[r]))
    ELSE QRTimeoutBody

C7_WaitWhenAuthedReturnsAtOnce ==
    \A w \in WaitReqs :
        authedAtArrival[w]
            => /\ pc[w] = "done"
               /\ resp[w] = [Resp(200, "already authenticated") EXCEPT
                                !.authenticated = TRUE]
               /\ ctx[w] = "none"
               /\ ticker[w] = "off"

\* C7 witness: a wait request that arrived on an authenticated Session has
\* been answered
C7_Witness ==
    \E w \in WaitReqs :
        /\ authedAtArrival[w]
        /\ pc[w] = "done"
        /\ resp[w].msg = "already authenticated"

\* C8: once GET /auth/wait is polling, it ends only with 200 and
\* authenticated: true or with 408 and authenticated: false, never with a
\* 5xx; and it ends with authenticated: true only in a step that samples
\* IsAuthed as true.
C8_WaitOutcomes ==
    \A w \in WaitReqs :
        /\ pc[w] = "poll"
              => /\ ctx[w] # "none"
                 /\ ~ ENABLED (WaitSelect(w) /\ pc'[w] = "done"
                                  /\ ~(resp'[w].status = 200 /\ resp'[w].authenticated)
                                  /\ ~(resp'[w].status = 408 /\ ~resp'[w].authenticated))
                 /\ ~IsAuthed => ~ ENABLED (WaitSelect(w) /\ resp'[w].authenticated)
        /\ (pc[w] = "done" /\ ctx[w] # "none")
              => \/ resp[w] = [Resp(200, "pairing successful") EXCEPT
                                  !.authenticated = TRUE]
                 \/ resp[w] = Resp(408, "timeout waiting for pairing")

\* C8 witness: a wait request that polled has returned success
C8_Witness ==
    \E w \in WaitReqs :
        /\ pc[w] = "done"
        /\ ctx[w] = "done"
        /\ ~authedAtArrival[w]
        /\ resp[w].msg = "pairing successful"

\* C9: a POST /auth/logout request that arrives while the Session is not
\* authenticated is answered 401 "not authenticated" at the guard: neither
\* Connect nor the platform Logout is called for it, and its arrival changes
\* neither the authenticated nor the connected state nor a pending pairing.
C9_LogoutWhenNotAuthed ==
    /\ \A r \in LogoutReqs :
          ~authedAtArrival[r]
              => /\ pc[r] = "done"
                 /\ resp[r] = Resp(401, "not authenticated")
                 /\ nConnect[r] = 0
                 /\ nLogout[r] = 0
    /\ \A r \in Req :
          ~(OpenWAOk /\ authed)
              => ~ ENABLED (LogoutStart(r)
                               /\ <<authed, connected, phonePending, storeOK>>'
                                     # <<authed, connected, phonePending, storeOK>>)

\* C9 witness: a logout request that arrived on an unauthenticated Session
\* has been answered
C9_Witness ==
    \E r \in LogoutReqs :
        /\ ~authedAtArrival[r]
        /\ pc[r] = "done"
        /\ resp[r].status = 401
        /\ ~authed

\* A pairing completes in this step: the code of a background task is
\* scanned, or the numeric code of a phone pairing is entered
PairingCompletes ==
    \/ \E r \in Req : bgSt[r] = "coded" /\ bgSt'[r] = "returned" /\ bgRes'[r] = "nil"
    \/ phonePending /\ ~phonePending'

PairReqs == {r \in Req : kind[r] = "pair"}

\* The phone numbers the platform does not accept: the empty one and the
\* malformed ones
BadPhones == {phone \in Phones : "nil" \notin PairPhoneResults(phone)}

\* C11: a POST /auth/pair request with an empty or malformed phone number is
\* answered 400 before any network call: its handler never gets past the
\* binding of the body, it neither connects the transport nor calls
\* PairPhone, and so the platform never gets to refuse its number.
C11_BadPhoneRejectedBeforeNetwork ==
    \A r \in PairReqs :
        /\ pc[r] \in {"pairConnect", "pairPhone"} => reqBody[r] \notin BadPhones
        /\ resp[r].cause # "InvalidPhoneNumber"

\* C11 failing case: a malformed number has passed the binding, the transport
\* was connected for it and the handler is about to call PairPhone with it
C11_Witness ==
    \E r \in PairReqs :
        /\ pc[r] = "pairPhone"
        /\ reqBody[r] \in BadPhones
        /\ nTransport[r] = 1

\* C12: a POST /auth/pair request with a body that binds (a non-empty
\* phone_number), arriving while the Session is authenticated, is answered
\* with the conflict response (409 "already authenticated"); a pair request
\* that arrives while the Session is authenticated never connects the
\* transport, never calls Connect and never requests a pairing code.
C12_PairConflictWhenAuthed ==
    [](
    /\ \A r \in PairReqs :
          authedAtArrival[r]
              => /\ pc[r] = "done"
                 /\ resp[r] \in {RespConflict, RespPairBadBody}
                 /\ nTransport[r] = 0
                 /\ nPairPhone[r] = 0
                 /\ nConnect[r] = 0
    /\ \A r \in Req :
          (OpenWAOk /\ authed)
              => \A phone \in Phones \ {""} :
                    ~ ENABLED (PairStart(r, phone) /\ resp'[r] # RespConflict)
    )

\* C12 witness: a pair request that arrived on an authenticated Session was
\* answered 409
C12_Witness ==
    \E r \in PairReqs :
        /\ authedAtArrival[r]
        /\ pc[r] = "done"
        /\ resp[r] = RespConflict
        /\ nPairPhone[r] = 0

\* The GET /auth/status requests
StatusReqs == {r \in Req : kind[r] = "status"}

\* The handler of request r takes a step
HandlerStep(r) == kind'[r] # kind[r] \/ pc'[r] # pc[r] \/ resp'[r] # resp[r]

\* C13: no step of a GET /auth/status or GET /auth/wait handler, in any
\* interleaving with the other requests and the background tasks, starts a
\* background connection task, calls Connect, the transport connect,
\* PairPhone or Logout, touches a result slot or a pending pairing, or
\* changes the authenticated or connected state of the Session.
C13_StatusChecksHaveNoEffect ==
    [][\A r \in Req :
          (kind'[r] \in {"status", "wait"} /\ HandlerStep(r))
              => /\ authed' = authed
                 /\ connected' = connected
                 /\ phonePending' = phonePending
                 /\ bgSt' = bgSt
                 /\ bgRes' = bgRes
                 /\ qrCodeChan' = qrCodeChan
                 /\ errChan' = errChan
                 /\ UNCHANGED callVars]_vars

\* C13 witness: a status check or a wait that arrived after a QR request
\* has been answered while the background task of that request is still in
\* its handshake
C13_Witness ==
    \E q \in QRReqs, r \in StatusReqs \cup WaitReqs :
        /\ q < r
        /\ pc[r] = "done"
        /\ bgSt[q] \in {"handshake", "coded"}
        /\ nConnect[q] = 1

\* C14: as long as the Session was unauthenticated when the process started
\* and no pairing flow has completed since, the Session is unauthenticated in
\* every state, whatever status checks and other requests were made:
\* IsAuthenticated() is false, every status check has sampled it false, and
\* every /auth/status response reports authenticated = false.
C14_UnauthenticatedUntilPaired ==
    [](
    ~everAuthed
        => /\ ~IsAuthed
           /\ ~authed
           /\ \A r \in StatusReqs :
                 /\ ~localAuthed[r]
                 /\ ~resp[r].authenticated
           /\ \A w \in WaitReqs : ~resp[w].authenticated
    )

\* C14 witness: no pairing has completed yet, a code is waiting to be
\* scanned, and a status check made meanwhile reported authenticated = false
C14_Witness ==
    /\ ~everAuthed
    /\ \E q \in QRReqs, r \in StatusReqs :
          /\ q < r
          /\ bgSt[q] = "coded"
          /\ pc[r] = "done"
          /\ resp[r] = RespStatus(FALSE, TRUE)

\* The positions of a background connection task that has been started and
\* has not ended
InFlight == {"spawned", "handshake", "coded", "returned"}

\* The requests whose background connection task is in flight
TasksInFlight == {q \in Req : bgSt[q] \in InFlight}

\* C15: at most one background connection task is in flight at any time,
\* and a GET /auth/qr request that arrives while the task of another attempt
\* is in flight does not start a second one.
C15_OneBackgroundTaskAtATime ==
    /\ Cardinality(TasksInFlight) <= 1
    /\ \A r \in Req :
          TasksInFlight \ {r} # {}
              => ~ ENABLED (QRStart(r) /\ bgSt'[r] = "spawned")

\* C15 failing case: the task of one attempt is in its handshake and the
\* next GET /auth/qr request, arriving now, starts a task of its own
C15_Witness ==
    \E q \in QRReqs, r \in Req :
        /\ r # q
        /\ bgSt[q] \in {"handshake", "coded"}
        /\ ~authed
        /\ ENABLED (QRStart(r) /\ bgSt'[r] = "spawned" /\ pc'[r] = "select")

\* C16: every background connection task started by GET /auth/qr ends by
\* itself, whatever the platform and the user do: once in flight it
\* eventually exits, even if no code is ever scanned and the platform
\* reports no error.
C16_TaskSelfTerminates ==
    \A r \in Req : (bgSt[r] \in InFlight) ~> (bgSt[r] = "exited")

\* C16 failing case: the handler has answered and cancelled its context, and
\* the task it started is still in its handshake, with no step left that the
\* program takes by itself
C16_Witness ==
    \E r \in QRReqs :
        /\ pc[r] = "done"
        /\ ctx[r] = "done"
        /\ bgSt[r] = "coded"
        /\ ~ ENABLED BgDeadline(r)
        /\ ~ ENABLED BgReport(r)

C18_SlotsSingleAndNonBlocking ==
    [](
    \A r \in QRReqs :
        /\ Len(qrCodeChan[r]) <= ChanCap
        /\ Len(errChan[r]) <= ChanCap
        /\ bgSt[r] = "handshake"
              => \A code \in Codes(r) :
                    /\ ENABLED BgEmitCode(r, code)
                    /\ ~ ENABLED (BgEmitCode(r, code)
                                     /\ ~ /\ bgSt'[r] = "coded"
                                          /\ qrCodeChan'[r] =
                                                IF Len(qrCodeChan[r]) < ChanCap
                                                THEN <<code>>
                                                ELSE qrCodeChan[r]
                                          /\ resp' = resp
                                          /\ pc' = pc)
        /\ bgSt[r] = "returned"
              => /\ ENABLED BgReport(r)
                 /\ ~ ENABLED (BgReport(r)
                                  /\ ~ /\ bgSt'[r] = "exited"
                                       /\ Len(errChan'[r]) <= ChanCap
                                       /\ resp' = resp
                                       /\ pc' = pc)
        /\ pc[r] = "done" => ~ ENABLED QRSelect(r)
    )

\* C18 witness: a code was written to the slot after the handler had
\* returned; it lies there unread and the task goes on
C18_Witness ==
    \E r \in QRReqs :
        /\ pc[r] = "done"
        /\ resp[r].status = 408
        /\ Len(qrCodeChan[r]) = 1
        /\ bgSt[r] = "coded"
        /\ ENABLED BgFail(r)

ConnectNoQRErrors ==
    {"InitializationError", "NotAuthenticated", "ConnectionError"}

----------------------------------------------------------------------------
\* C21: a status check never reports a torn state -- the pair
\* (authenticated, connected) a GET /auth/status request answers with is a
\* state the Session was in at one instant between the handler's first read
\* and its answer.
C21_StatusPairIsASessionState ==
    [][\A r \in Req :
          (pc[r] = "statusConnected" /\ pc'[r] = "done")
              => <<resp'[r].authenticated, resp'[r].connected>> \in seen[r]]_vars

\* C21 witness: a status check that ran while a logout was in progress has
\* answered authenticated and not connected, on a Session that was connected
\* for as long as it was authenticated while the check ran
C21_Witness ==
    \E r \in StatusReqs, l \in LogoutReqs :
        /\ l < r
        /\ pc[r] = "done"
        /\ resp[l] = RespLoggedOut
        /\ resp[r].authenticated
        /\ ~resp[r].connected
        /\ nConnect[l] = 1
        /\ ~IsAuthed
        /\ ~IsConnected

----------------------------------------------------------------------------
----------------------------------------------------------------------------
\* Credentials the middleware does not accept: no key, or a key that is not
\* one of the configured keys
BadCreds == {cred \in Creds : APIKeyOf(cred) \notin ValidKeys}

\* A request that the middleware aborted
Aborted(r) == resp[r] \in {RespKeyRequired, RespKeyInvalid}

\* The answer of the middleware, and nothing else: no handler position, no
\* context, no background task, no call, the Session as it was
OnlyAborted(r) ==
    /\ resp'[r].status = 401
    /\ pc'[r] = "done"
    /\ UNCHANGED <<sessVars, sessHist, ctx, ticker, qrVars, callVars, failedInTime, seen>>

\* C23 as stated: a request for a route of /api/v1 without a valid key is
\* answered 401 and changes nothing, and /health is the only route that
\* answers a request without a valid key otherwise.
C23_OnlyHealthWithoutKey ==
    \A cred \in BadCreds :
        /\ \A ep \in V1Routes :
              ~ ENABLED (Request(nextId, ep, cred) /\ ~OnlyAborted(nextId))
        /\ \A ep \in Routes \ {"health"} :
              ~ ENABLED (Request(nextId, ep, cred) /\ resp'[nextId].status # 401)

\* C23: every route of the /api/v1 group, the /auth/* routes among them, runs
\* its handler only for a request with a valid key -- a request with no key
\* or an invalid key is answered 401 by the middleware, its handler does not
\* run, and the Session, the result slots and the background tasks stay as
\* they were.  The routes registered outside the group (/health, and the
\* static files under / and /static) answer without a key and do not touch
\* the Session either.
C23_KeyGuardsEveryV1Route ==
    [](
    /\ \A cred \in BadCreds :
          /\ \A ep \in V1Routes :
                ~ ENABLED (Request(nextId, ep, cred) /\ ~OnlyAborted(nextId))
          /\ \A ep \in PublicRoutes :
                ~ ENABLED (Request(nextId, ep, cred)
                              /\ ~UNCHANGED <<sessVars, qrVars, callVars>>)
    /\ \A r \in Req :
          /\ Aborted(r)
                => /\ kind[r] \in V1Routes
                   /\ pc[r] = "done"
                   /\ bgSt[r] = "none"
                   /\ nConnect[r] + nTransport[r] + nLogout[r] + nPairPhone[r] = 0
          /\ kind[r] \in PublicRoutes => resp[r].status \in {200, 404}
    )

\* C23 witness: a GET /auth/qr request with an invalid key was answered 401 on
\* an unauthenticated Session, and no background task was started for it
C23_Witness ==
    \E r \in Req :
        /\ kind[r] = "qr"
        /\ resp[r] = RespKeyInvalid
        /\ ~authedAtArrival[r]
        /\ bgSt[r] = "none"
        /\ ctx[r] = "none"
        /\ ~authed

----------------------------------------------------------------------------
\* C24: nothing retries by itself -- on behalf of one request a.Connect is
\* called at most once and the transport connect at most once, a request
\* starts at most one background task, and a task that has come back from
\* Connect (with an error or without) never calls it again; a handler that
\* has answered makes no further call.
C24_NoAutomaticRetry ==
    [][\A r \in Req :
          /\ nConnect'[r] <= 1
          /\ nTransport'[r] <= 1
          /\ nLogout'[r] <= 1
          /\ nPairPhone'[r] <= 1
          /\ bgSt'[r] = "spawned" => bgSt[r] \in {"none", "spawned"}
          /\ bgSt[r] \in {"returned", "exited"}
                => /\ bgSt'[r] \in {"returned", "exited"}
                   /\ nConnect'[r] = nConnect[r]
          /\ (pc[r] = "done" /\ bgSt[r] \in {"none", "exited"})
                => /\ nConnect'[r] = nConnect[r]
                   /\ nTransport'[r] = nTransport[r]
                   /\ bgSt'[r] = bgSt[r]]_vars

\* C24 witness: a logout failed to connect after its one call of Connect;
\* the connect was tried again only by the caller's next request, which
\* logged the Session out
C24_Witness ==
    \E l1 \in LogoutReqs, l2 \in LogoutReqs :
        /\ l1 < l2
        /\ resp[l1] = RespLogoutConnFailed("ConnectionError")
        /\ nConnect[l1] = 1
        /\ nLogout[l1] = 0
        /\ resp[l2] = RespLoggedOut
        /\ nConnect[l2] = 1

----------------------------------------------------------------------------
\* The answers of POST /auth/pair that end the request before the transport
\* connect
PairEntryAnswers == {RespPairBadBody, RespConflict, RespPairInitFailed}

----------------------------------------------------------------------------
\* C26: POST /auth/logout runs the guard, then Connect, then the platform
\* Logout.  Connect is called only by a request that passed the guard, Logout
\* only after Connect returned nil.  The step at which Connect or Logout
\* fails answers 500 without logged_out and leaves the Session as it is:
\* still authenticated if it was, the transport as it was.  Only the step
\* that answers 200 with logged_out makes the Session unauthenticated.
C26_LogoutStepsInOrder ==
    [][\A r \in Req :
          (kind'[r] = "logout" /\ HandlerStep(r))
              => /\ kind[r] = "none"
                      => /\ nConnect'[r] = 0 /\ nLogout'[r] = 0
                         /\ authed' = authed /\ connected' = connected
                         /\ pc'[r] = "logoutConnect" => authed /\ opened'
                 /\ pc[r] = "logoutConnect"
                      => /\ nConnect'[r] = 1 /\ nLogout'[r] = 0
                         /\ authed' = authed
                         /\ \/ pc'[r] = "logoutCall" /\ connected'
                            \/ /\ resp'[r].status = 500
                               /\ resp'[r].msg = "failed to connect"
                               /\ connected' = connected
                 /\ pc[r] = "logoutCall"
                      => /\ nConnect'[r] = 1 /\ nLogout'[r] = 1
                         /\ \/ resp'[r] = RespLoggedOut /\ ~authed'
                            \/ /\ resp'[r].status = 500
                               /\ resp'[r].msg = "logout failed"
                               /\ authed' = authed
                               /\ connected' = connected
                 /\ resp'[r].status = 500 => ~resp'[r].logged_out
                 /\ resp'[r].logged_out => resp'[r].status = 200]_vars

\* C26 witness: a logout on an authenticated Session connected, the platform
\* Logout failed; the request was answered 500 and the Session is still
\* authenticated
C26_Witness ==
    \E r \in LogoutReqs :
        /\ resp[r] = RespLogoutFailed("LogoutError")
        /\ nConnect[r] = 1
        /\ nLogout[r] = 1
        /\ authed
        /\ connected
        /\ ~resp[r].logged_out

----------------------------------------------------------------------------
\* The requests of an authenticated-only operation
SendReqs == {r \in Req : kind[r] = "send"}

\* C27 as stated: an authenticated-only request that arrives while the
\* Session is not authenticated is answered 401 and Connect is not called.
C27_UnauthenticatedMeans401 ==
    \A r \in SendReqs :
        ~authedAtArrival[r]
            => /\ pc[r] = "done"
               /\ resp[r] = RespSendNotAuthed
               /\ nConnect[r] = 0

\* C27: an authenticated-only operation checks the guard before any use of
\* the Session.  A request that arrives while the Session is not
\* authenticated is answered at once, 401 when its input binds and 400 when
\* it does not, and Connect is not called for it.  No step of such a handler
\* starts a background task or a pairing, changes the authenticated state,
\* or brings the transport up on an unauthenticated Session.
C27_GuardBeforeSessionUse ==
    /\ [](/\ \A r \in SendReqs :
                /\ ~authedAtArrival[r]
                      => /\ pc[r] = "done"
                         /\ resp[r] \in {RespSendNotAuthed, RespSendBadBody}
                         /\ nConnect[r] = 0
                /\ resp[r] = RespSendBadBody => nConnect[r] = 0
                /\ bgSt[r] = "none"
                /\ nTransport[r] = 0 /\ nPairPhone[r] = 0
          /\ (nextId \in Req /\ ~(OpenWAOk /\ authed))
                => \A b \in SendBodies \ {"invalid"} :
                      ~ ENABLED (SendStart(nextId, b)
                                    /\ resp'[nextId] # RespSendNotAuthed))
    /\ [][\A r \in Req :
            (kind'[r] = "send" /\ HandlerStep(r))
                => /\ authed' = authed
                   /\ phonePending' = phonePending
                   /\ bgSt' = bgSt
                   /\ qrCodeChan' = qrCodeChan
                   /\ connected' # connected => authed /\ connected']_vars

\* C27 witness: a well-formed POST /send/text arrived on an unauthenticated
\* Session whose client could be opened; it was answered 401 without a call
\* of Connect, and the transport is down
C27_Witness ==
    \E r \in SendReqs :
        /\ ~authedAtArrival[r]
        /\ resp[r] = RespSendNotAuthed
        /\ nConnect[r] = 0
        /\ opened
        /\ ~authed
        /\ ~connected

----------------------------------------------------------------------------
\* C28: GET /auth/wait always terminates.  A handler that is in its polling
\* loop answers eventually: its deadline (or the cancellation of the
\* request) closes ctx.Done(), and the loop's select then comes to that
\* case.  It answers 408 with authenticated false only once its context is
\* done, and "pairing successful" only in a step that sampled
\* IsAuthenticated() as true.
C28_WaitTerminates ==
    /\ \A r \in Req : (pc[r] = "poll") ~> (pc[r] = "done")
    /\ [][\A r \in Req :
            (pc[r] = "poll" /\ pc'[r] = "done")
                => \/ /\ resp'[r] = RespWaitTimeout
                      /\ ~CtxLive(r)
                      /\ ~resp'[r].authenticated
                      /\ resp'[r].status = 408
                   \/ /\ resp'[r] = RespWaitPaired
                      /\ IsAuthed]_vars

\* C28 witness: a wait request polled an unauthenticated Session until its
\* deadline and was answered 408; its ticker is stopped
C28_Witness ==
    \E r \in WaitReqs :
        /\ ~authedAtArrival[r]
        /\ pc[r] = "done"
        /\ resp[r] = RespWaitTimeout
        /\ ticker[r] = "off"
        /\ ~authed

----------------------------------------------------------------------------
\* The step in which the handler of a GET /auth/qr request leaves its select
QRAnswers(r) ==
    /\ kind[r] = "qr"
    /\ pc[r] \in {"select", "blocked"}
    /\ pc'[r] = "done"

\* What the slots of r may receive, and from whom: a code only from r's own
\* task in its handshake, an error only from r's own task after its Connect
\* has returned that error and while r's context is live; a context that is
\* done stays done, and a response that was sent stays as it is
QRSlotsSound(r) ==
    /\ Len(qrCodeChan'[r]) > Len(qrCodeChan[r])
          => /\ bgSt[r] = "handshake"
             /\ Len(qrCodeChan'[r]) = 1
             /\ Head(qrCodeChan'[r]) \in Codes(r)
    /\ Len(errChan'[r]) > Len(errChan[r])
          => /\ bgSt[r] = "returned"
             /\ bgRes[r] \notin {"nil", "none"}
             /\ errChan'[r] = <<bgRes[r]>>
             /\ CtxLive(r)
             /\ pc[r] # "done"
    /\ ctx[r] = "done" => ctx'[r] = "done"
    /\ pc[r] = "done" => pc'[r] = "done" /\ resp'[r] = resp[r]

----------------------------------------------------------------------------
\* The handler of r has started its attempt and has not answered
QRInFlight(r) == kind[r] = "qr" /\ pc[r] \in {"select", "blocked"}

\* A step leaves everything of request q's attempt as it is: its task, its
\* two slots, the claim on its handler and its response
AttemptUntouched(q) ==
    /\ bgSt'[q] = bgSt[q]
    /\ bgRes'[q] = bgRes[q]
    /\ qrCodeChan'[q] = qrCodeChan[q]
    /\ errChan'[q] = errChan[q]
    /\ woken'[q] = woken[q]
    /\ resp'[q] = resp[q]
    /\ pc'[q] = pc[q]

\* C30: two simultaneous GET /auth/qr requests on an unauthenticated Session
\* each start their own background connection task with their own result
\* slots: the step that starts the attempt of r starts a task for r with two
\* empty slots and touches no other attempt; a step of r's task or of r's
\* handler changes the slots, the claim and the response of r alone; a code
\* reaches r's slot only from r's task, and the code or the error of r's
\* response is the one of r's own slot, never the code of another request.
C30_OwnTaskOwnSlots ==
    [][\A r \in Req :
          /\ (pc[r] = "idle" /\ pc'[r] = "select")
                => /\ kind'[r] = "qr"
                   /\ bgSt'[r] = "spawned"
                   /\ qrCodeChan'[r] = << >>
                   /\ errChan'[r] = << >>
                   /\ \A q \in Req \ {r} : AttemptUntouched(q)
          /\ (bgSt'[r] # bgSt[r] \/ qrCodeChan'[r] # qrCodeChan[r]
                \/ errChan'[r] # errChan[r] \/ resp'[r] # resp[r])
                => \A q \in Req \ {r} : AttemptUntouched(q)
          /\ Len(qrCodeChan'[r]) > Len(qrCodeChan[r])
                => /\ bgSt[r] = "handshake"
                   /\ bgSt'[r] = "coded"
                   /\ Head(qrCodeChan'[r]) \in Codes(r)
          /\ Len(errChan'[r]) > Len(errChan[r])
                => /\ bgSt[r] = "returned"
                   /\ bgSt'[r] = "exited"
                   /\ errChan'[r] = <<bgRes[r]>>
          /\ (QRInFlight(r) /\ pc'[r] = "done")
                => /\ resp'[r].status = 200
                        => /\ resp'[r].qr_code = Head(qrCodeChan[r])
                           /\ resp'[r].qr_code \in Codes(r)
                           /\ \A q \in Req \ {r} :
                                 resp'[r].qr_code # CodeNames[q]
                   /\ resp'[r].msg = "connection failed"
                        => /\ Len(errChan[r]) > 0
                           /\ resp'[r].cause = Head(errChan[r])]_vars

\* C30 witness: two QR requests stand parked in their selects at the same
\* time; the first is claimed by the code of its own task, which lies in its
\* own slot, the second by the error of its own task, and the second's code
\* slot is empty
C30_Witness ==
    \E r, q \in QRReqs :
        /\ r # q
        /\ ~authedAtArrival[r] /\ ~authedAtArrival[q]
        /\ Parked(r, "code")
        /\ qrCodeChan[r] = <<CodeNames[r]>>
        /\ errChan[r] = << >>
        /\ Parked(q, "err")
        /\ errChan[q] = <<"ConnectionError">>
        /\ qrCodeChan[q] = << >>

----------------------------------------------------------------------------
\* The first non-empty string of a sequence of strings, "" when there is none
FirstNonEmpty(seq) ==
    IF \E i \in DOMAIN seq : seq[i] # ""
    THEN seq[CHOOSE i \in DOMAIN seq :
                /\ seq[i] # ""
                /\ \A j \in DOMAIN seq : j < i => seq[j] = ""]
    ELSE ""

\* The places where a request can carry a key, in the order of the claim:
\* the X-API-Key header, the api_key query parameter, the token of an
\* Authorization header of the Bearer scheme
KeySources(cred) ==
    <<cred.header, cred.query,
      IF cred.auth[1] = "Bearer " THEN cred.auth[2] ELSE "">>

\* The requests for a route of the /api/v1 group that have arrived
V1Arrived == {r \in Req : pc[r] # "idle" /\ kind[r] \in V1Routes}

\* C31: the key the middleware checks is the first non-empty one in the order
\* X-API-Key header, api_key query parameter, Authorization Bearer token, and
\* only that key is validated: a request for a route of the group is handed
\* to its handler iff that key is one of the configured keys; it is answered
\* 401 'API key is required' iff no source holds a key, and 401 'Invalid API
\* key' iff the first non-empty key is not configured, whatever the sources
\* after it hold.
C31_FirstKeyDecides ==
    \A r \in V1Arrived :
        LET k == FirstNonEmpty(KeySources(given[r])) IN
        /\ Aborted(r) <=> k \notin ValidKeys
        /\ resp[r] = RespKeyRequired <=> k = ""
        /\ resp[r] = RespKeyInvalid <=> (k # "" /\ k \notin ValidKeys)
        /\ Aborted(r) => pc[r] = "done" /\ bgSt[r] = "none" /\ ctx[r] = "none"

\* C31 witness: a request for GET /auth/status carried an invalid key in
\* X-API-Key and the valid key both in the query parameter and as Bearer
\* token; it was answered 401 'Invalid API key' and its handler did not run
C31_Witness ==
    \E r \in V1Arrived :
        /\ given[r].header = "zz"
        /\ given[r].query \in ValidKeys
        /\ given[r].auth = <<"Bearer ", "k1">>
        /\ kind[r] = "status"
        /\ resp[r] = RespKeyInvalid
        /\ pc[r] = "done"

----------------------------------------------------------------------------
\* The places where a webhook request can carry its recipient, in the order
\* of the claim: query parameter to, header X-WhatsApp-To,
\* commonAnnotations.whatsapp_to, the first alert's annotations.whatsapp_to,
\* tags.whatsapp_to
HookSources(in) == <<in.to, in.hdr, in.common, in.alert0, in.tags>>

\* The POST /webhook/grafana requests
HookReqs == {r \in Req : kind[r] = "webhook"}

\* C32: the Grafana webhook resolves its recipient as the first non-empty
\* value in the order query parameter to, header X-WhatsApp-To,
\* commonAnnotations.whatsapp_to, first alert's annotations.whatsapp_to,
\* tags.whatsapp_to: that value is what the handler goes on with and what a
\* sent message is addressed to.  When all five are empty the request is
\* answered 400 'recipient required' in its first step, whatever the state
\* of the Session, before the authentication guard opens the client and
\* without a call of Connect or a send; and only then is it answered so.
C32_RecipientResolution ==
    /\ [](\A r \in HookReqs :
            LET k == FirstNonEmpty(HookSources(given[r])) IN
            /\ resp[r] = RespHookNoRecipient <=> k = ""
            /\ k = "" => /\ pc[r] = "done"
                         /\ nConnect[r] = 0
                         /\ ~resp[r].sent
            /\ pc[r] = "hookConnect" => reqBody[r] = k
            /\ resp[r].sent => resp[r].to = k /\ nConnect[r] = 1
            /\ resp[r] = RespHookBadRecipient => k = "bad" /\ nConnect[r] = 1)
    /\ [][\A r \in Req :
            (pc[r] = "idle" /\ kind'[r] = "webhook"
                /\ FirstNonEmpty(HookSources(given[r])) = "")
                => /\ resp'[r] = RespHookNoRecipient
                   /\ resp'[r].status = 400
                   /\ UNCHANGED <<sessVars, callVars, qrVars, ctx>>]_vars

\* C32 witness: a webhook request carried nothing in the query, the header
\* and commonAnnotations, and a recipient both in the first alert's
\* annotations and in tags; the message was sent to the one of the first
\* alert's annotations
C32_Witness ==
    \E r \in HookReqs :
        /\ given[r].to = "" /\ given[r].hdr = "" /\ given[r].common = ""
        /\ given[r].alert0 = "aTo"
        /\ given[r].tags = "tTo"
        /\ resp[r] = RespHookSent("aTo")
        /\ nConnect[r] = 1
        /\ connected

====
